---- MODULE Spec2Model ----
(***************************************************************************)
(* Deployment orchestration of clapctl: the completion-polling loop        *)
(* (watchService), version resolution against the artifact store           *)
(* (deployService / updateService) and the lifecycle requests they issue.  *)
(* Remote services (CloudFormation, S3) are the environment: each request  *)
(* draws its response from a small set.                                    *)
(***************************************************************************)
EXTENDS Integers, Sequences, FiniteSets, TLC

VARIABLES
  impl,             \* which class runs: "AWSCloudProvider" or "AWSService"
  action,           \* watchService: the DeployAction argument
  pc,               \* watchService: the await the loop is at
  observed,         \* status query made by isStackDeployCompleted, this iteration
  recheck,          \* status query made by isStackDeployFailed, this iteration
  nQueries,         \* number of getStackStatus calls made so far
  firstCompletedAt, \* index of the first query that returned a Completed status
  result,           \* how watchService ended: "none", "success", "error"
  errorMessage,     \* message of the Error the caller receives
  spinnerStops,     \* number of spinner.stop() calls
  spinnerText,      \* spinner.text
  resourceFetch,    \* resources query made by showFirstProcessedResource, this iteration
  svcOp,            \* "deployService" or "updateService"
  config,           \* the DeployConfig argument
  svcPc,            \* position inside deployService / updateService
  version,          \* local variable version
  storeCalls,       \* calls made to S3Service, in order
  requests,         \* commands sent to CloudFormation, in order
  svcResult,        \* how the service call ended
  template,         \* updateStack: local variable templateBody and the fetch made for it
  command,          \* the entry point that calls the service: a CLI command or the MCP tool
  options,          \* the options / arguments the entry point was given
  stackParameters,  \* the parameter values the stack holds in the engine
  outputs,          \* CloudFormationService: the private outputs map
  outputsOf,        \* CloudFormationService: the stack whose answer filled the map
  cfnCall,          \* CloudFormationService: the call made last and how it ended
  nCalls,           \* CloudFormationService: number of calls made on the instance
  tasks,            \* get_deployment_status: the endpoint getters running together
  providerFactories, \* the registry: Map of lower-cased name to factory
  registrations,    \* the registerCloudProvider calls made, in order
  created,          \* the createCloudProvider call made last and how it ended
  file,             \* ~/.clapdb/credentials.json
  cred              \* the ClapDBCredential of the handler that ran last

watchVars == <<action, pc, observed, recheck, nQueries, firstCompletedAt,
               result, errorMessage, spinnerStops, spinnerText, resourceFetch>>
svcVars == <<svcOp, config, svcPc, version, storeCalls, requests, svcResult, template>>
cmdVars == <<command, options, stackParameters>>
cfnVars == <<outputs, outputsOf, cfnCall, nCalls, tasks>>
regVars == <<providerFactories, registrations, created>>
credVars == <<file, cred>>
extVars == <<cmdVars, cfnVars, regVars, credVars>>
vars == <<impl, watchVars, svcVars, extVars>>

-----------------------------------------------------------------------------
(* Bounds *)

\* loop iterations of watchService that are explored
MaxPolls == 3
\* resources in one DescribeStackResources response
MaxResources == 2
\* characters in the LATEST_TAG / LATEST_HASH objects
MaxContentLen == 2
\* outputs in one DescribeStacks response
MaxOutputs == 2
\* calls made on one CloudFormationService instance
MaxCalls == 3
\* outputs of the stack in an answer to one of the concurrent getters
MaxStatusOutputs == 2
\* registerCloudProvider calls made in one process
MaxRegistrations == 3

-----------------------------------------------------------------------------
(* Shared values *)

Implementations == {"AWSCloudProvider", "AWSService"}

Deploy == "deploy"
Update == "update"
Delete == "delete"
DeployAction == {Deploy, Update, Delete}

\* an optional value (T | undefined)
None == [some |-> FALSE, v |-> <<>>]
Some(x) == [some |-> TRUE, v |-> x]

Ok(x) == [ok |-> TRUE, val |-> x]
Err(m) == [ok |-> FALSE, val |-> m]

-----------------------------------------------------------------------------
(* CloudFormationService: stack status *)

\* terminalStates of isStackDeployCompleted
CompletedStates ==
  {"CREATE_COMPLETE", "UPDATE_COMPLETE", "DELETE_COMPLETE", "UPDATE_ROLLBACK_COMPLETE"}

\* variant: the failed states without the rolled-back update
FailedStatesWithoutRollback ==
  {"CREATE_FAILED", "UPDATE_FAILED", "DELETE_FAILED", "ROLLBACK_FAILED",
   "UPDATE_ROLLBACK_FAILED", "ROLLBACK_COMPLETE"}

\* failedStates of isStackDeployFailed
FailedStates ==
  {"CREATE_FAILED", "UPDATE_FAILED", "DELETE_FAILED", "ROLLBACK_FAILED",
   "UPDATE_ROLLBACK_FAILED", "ROLLBACK_COMPLETE", "UPDATE_ROLLBACK_COMPLETE"}

InProgressStates == {"CREATE_IN_PROGRESS", "UPDATE_IN_PROGRESS", "DELETE_IN_PROGRESS"}

\* a status of the engine that no set of the code names
UnrecognisedStates == {"ROLLBACK_IN_PROGRESS"}

\* Stack.StackStatus missing from the response
Undefined == "<undefined>"

StackStatusValues ==
  CompletedStates \cup FailedStates \cup InProgressStates \cup UnrecognisedStates
    \cup {Undefined}

\* errors with which client.send rejects
SdkErrors == {"ValidationError", "ThrottlingException"}

DescribeStacksResponses ==
  {[throws |-> TRUE, name |-> e, stacks |-> <<>>] : e \in SdkErrors}
    \cup {[throws |-> FALSE, name |-> "", stacks |-> <<>>]}
    \cup {[throws |-> FALSE, name |-> "", stacks |-> <<s>>] : s \in StackStatusValues}

StackNotFound == "Stack not found"

getStackStatus(resp) ==
  IF resp.throws THEN Err(resp.name)
  ELSE IF Len(resp.stacks) = 0 THEN Err(StackNotFound)
  ELSE Ok(IF resp.stacks[1] = Undefined THEN "" ELSE resp.stacks[1])

isStackDeployCompleted(resp) ==
  LET status == getStackStatus(resp)
  IN  IF status.ok THEN Ok(status.val \in CompletedStates) ELSE status

isStackDeployFailed(resp) ==
  LET status == getStackStatus(resp)
  IN  IF status.ok THEN Ok(status.val \in FailedStates) ELSE status

-----------------------------------------------------------------------------
(* CloudFormationService: resources *)

ResourceIds == {"ClapDBInitLambda", "StorageBucket"}
ResourceStatuses ==
  {"CREATE_IN_PROGRESS", "CREATE_COMPLETE", "UPDATE_COMPLETE", "DELETE_COMPLETE"}

StackResource == [LogicalResourceId : ResourceIds, ResourceStatus : ResourceStatuses]

SeqsUpTo(S, n) == UNION {[1..k -> S] : k \in 0..n}

DescribeStackResourcesResponses ==
  {[throws |-> TRUE, StackResources |-> <<>>]}
    \cup {[throws |-> FALSE, StackResources |-> rs] : rs \in SeqsUpTo(StackResource, MaxResources)}

\* Map.set: a key keeps the place of its first insertion
RECURSIVE MapSet(_, _, _)
MapSet(m, k, v) ==
  IF m = <<>> THEN <<[key |-> k, value |-> v]>>
  ELSE IF Head(m).key = k THEN <<[key |-> k, value |-> v]>> \o Tail(m)
  ELSE <<Head(m)>> \o MapSet(Tail(m), k, v)

RECURSIVE MapOfResources(_)
MapOfResources(rs) ==
  IF rs = <<>> THEN <<>>
  ELSE LET r == rs[Len(rs)]
       IN  MapSet(MapOfResources(SubSeq(rs, 1, Len(rs) - 1)),
                  r.LogicalResourceId, r.ResourceStatus)

getResourcesStatus(resp) ==
  IF resp.throws THEN Err("DescribeStackResources failed")
  ELSE Ok(MapOfResources(resp.StackResources))

-----------------------------------------------------------------------------
(* watchService *)

NoQuery == [made |-> FALSE, ok |-> TRUE, val |-> ""]
Query(r) == [made |-> TRUE, ok |-> r.ok, val |-> r.val]

Return == [result |-> "success", message |-> ""]
Throw(m) == [result |-> "error", message |-> m]

FailedToCheck == "Failed to check deployment status"

\* catch of AWSCloudProvider.watchService
QueryErrorInAWSCloudProvider(a, msg) ==
  IF a = Delete THEN Return ELSE Throw(FailedToCheck)

\* variant: a catch block that rethrows whatever the action
QueryErrorInAWSServiceRethrowAlways(a, msg) == Throw(msg)

\* catch (err) of AWSService.watchService

QueryErrorInAWSService(a, msg) ==
  IF a = Delete THEN Return ELSE Throw(msg)

OnQueryError(i, a, msg) ==
  IF i = "AWSCloudProvider" THEN QueryErrorInAWSCloudProvider(a, msg)
  ELSE QueryErrorInAWSService(a, msg)

FailureMessages ==
  [a \in DeployAction |->
     CASE a = Deploy -> "deploy service failed, you should check deploy detail"
       [] a = Update -> "update service failed, you should check update detail"
       [] a = Delete -> "delete service failed, you should check delete detail"]

\* variant: a stop placed after the loop instead of in a finally block
SpinnerStopOnReturnOnly(outcome, stops) ==
  IF outcome.result = "success" THEN stops + 1 ELSE stops

\* finally { spinner.stop() }
SpinnerStopInFinally(outcome, stops) == stops + 1

\* watchService leaves its try block with outcome
Leave(outcome) ==
  /\ pc' = "done"
  /\ result' = outcome.result
  /\ errorMessage' = outcome.message
  /\ spinnerStops' = SpinnerStopInFinally(outcome, spinnerStops)

InitialText == [resource |-> "", status |-> ""]

NoFetch == [made |-> FALSE, throws |-> FALSE, StackResources |-> <<>>]
Fetch(resp) == [made |-> TRUE, throws |-> resp.throws, StackResources |-> resp.StackResources]

\* variant: the value returned by showFirstProcessedResource ends the loop
ContinueUnlessReturned(returned) ==
  IF returned THEN "done" ELSE "isStackDeployCompleted"

\* the value returned is dropped: sleep 500 ms; continue
Continue(returned) == "isStackDeployCompleted"

\* variant: an update shows what a deployment shows
RECURSIVE FirstProcessedUpdateAsDeploy(_, _)
FirstProcessedUpdateAsDeploy(a, status) ==
  IF status = <<>> THEN None
  ELSE LET resourceStatus == Head(status).value
           shown == Some([resource |-> Head(status).key, status |-> resourceStatus])
       IN  IF a \in {Deploy, Update} /\ resourceStatus \in {"CREATE_COMPLETE", "UPDATE_COMPLETE"}
             THEN shown
           ELSE IF a = Delete /\ resourceStatus = "DELETE_COMPLETE" THEN shown
           ELSE IF a = Update /\ resourceStatus = "UPDATE_COMPLETE" THEN shown
           ELSE FirstProcessedUpdateAsDeploy(a, Tail(status))

RECURSIVE FirstProcessed(_, _)
FirstProcessed(a, status) ==
  IF status = <<>> THEN None
  ELSE LET resourceStatus == Head(status).value
           shown == Some([resource |-> Head(status).key, status |-> resourceStatus])
       IN  IF a = Deploy /\ resourceStatus \in {"CREATE_COMPLETE", "UPDATE_COMPLETE"}
             THEN shown
           ELSE IF a = Delete /\ resourceStatus = "DELETE_COMPLETE" THEN shown
           ELSE IF a = Update /\ resourceStatus = "UPDATE_COMPLETE" THEN shown
           ELSE FirstProcessed(a, Tail(status))

\* the spinner text and the value returned
showFirstProcessedResource(a, resp, text) ==
  LET status == getResourcesStatus(resp)
  IN  IF ~status.ok
        THEN [text |-> text, returned |-> a \in {Delete, Deploy}]
      ELSE LET first == FirstProcessed(a, status.val)
           IN  IF first.some THEN [text |-> first.v, returned |-> TRUE]
               ELSE [text |-> text, returned |-> FALSE]

InitWatch ==
  /\ action \in DeployAction
  /\ pc = "isStackDeployCompleted"
  /\ observed = NoQuery
  /\ recheck = NoQuery
  /\ nQueries = 0
  /\ firstCompletedAt = 0
  /\ result = "none"
  /\ errorMessage = ""
  /\ spinnerStops = 0
  /\ spinnerText = InitialText
  /\ resourceFetch = NoFetch

NoteQuery(status) ==
  /\ nQueries' = nQueries + 1
  /\ firstCompletedAt' =
       IF firstCompletedAt = 0 /\ status.ok /\ status.val \in CompletedStates
         THEN nQueries + 1 ELSE firstCompletedAt

\* completed = await this.cloudformation.isStackDeployCompleted(stackName)
CheckCompleted ==
  /\ pc = "isStackDeployCompleted"
  /\ nQueries < MaxPolls
  /\ \E resp \in DescribeStacksResponses :
       LET status == getStackStatus(resp)
           completed == isStackDeployCompleted(resp)
       IN  /\ observed' = Query(status)
           /\ recheck' = NoQuery
           /\ resourceFetch' = NoFetch
           /\ NoteQuery(status)
           /\ IF ~completed.ok
                THEN Leave(OnQueryError(impl, action, completed.val))
              ELSE /\ pc' = IF completed.val THEN "isStackDeployFailed"
                            ELSE "showFirstProcessedResource"
                   /\ UNCHANGED <<result, errorMessage, spinnerStops>>
  /\ UNCHANGED <<impl, action, spinnerText, svcVars, extVars>>

\* await this.showFirstProcessedResource(...); sleep 500 ms; continue
ShowProgress ==
  /\ pc = "showFirstProcessedResource"
  /\ \E resp \in DescribeStackResourcesResponses :
       LET shown == showFirstProcessedResource(action, resp, spinnerText)
       IN  /\ resourceFetch' = Fetch(resp)
           /\ spinnerText' = shown.text
           /\ pc' = Continue(shown.returned)
  /\ UNCHANGED <<impl, action, observed, recheck, nQueries, firstCompletedAt,
                 result, errorMessage, spinnerStops, svcVars, extVars>>

\* failed = await this.cloudformation.isStackDeployFailed(stackName)
CheckFailed ==
  /\ pc = "isStackDeployFailed"
  /\ \E resp \in DescribeStacksResponses :
       LET status == getStackStatus(resp)
           failed == isStackDeployFailed(resp)
       IN  /\ recheck' = Query(status)
           /\ NoteQuery(status)
           /\ Leave(IF ~failed.ok THEN OnQueryError(impl, action, failed.val)
                    ELSE IF failed.val THEN Throw(FailureMessages[action])
                    ELSE Return)
  /\ UNCHANGED <<impl, action, observed, spinnerText, resourceFetch, svcVars, extVars>>

-----------------------------------------------------------------------------
(* JavaScript strings whose characters matter are sequences of characters *)

Latest == <<"l", "a", "t", "e", "s", "t">>
V3 == <<"v", "3">>
Abc == <<"a", "b", "c">>

Whitespace == {" ", "\n", "\t", "\r"}

RECURSIVE TrimStart(_)
TrimStart(s) ==
  IF s = <<>> THEN s
  ELSE IF Head(s) \in Whitespace THEN TrimStart(Tail(s)) ELSE s

RECURSIVE TrimEnd(_)
TrimEnd(s) ==
  IF s = <<>> THEN s
  ELSE IF s[Len(s)] \in Whitespace THEN TrimEnd(SubSeq(s, 1, Len(s) - 1)) ELSE s

\* String.prototype.trim
Trim(s) == TrimEnd(TrimStart(s))

\* !x for an optional string: undefined and '' are falsy
Falsy(x) == ~x.some \/ x.v = <<>>

\* the same for a string kept as a whole
FalsyText(x) == ~x.some \/ x.v = ""

BoolString(b) == IF b THEN "true" ELSE "false"

-----------------------------------------------------------------------------
(* S3Service *)

ContentAlphabet == {" ", "\n", "v", "3"}

\* what the LATEST_TAG and LATEST_HASH objects can hold
Contents ==
  SeqsUpTo(ContentAlphabet, MaxContentLen) \cup {Latest, Latest \o <<"\n">>, Abc}

S3Errors == {"NoSuchKey", "AccessDenied"}

GetObjectResponses ==
  {[throws |-> TRUE, name |-> e, Body |-> None] : e \in S3Errors}
    \cup {[throws |-> FALSE, name |-> "", Body |-> None]}
    \cup {[throws |-> FALSE, name |-> "", Body |-> Some(c)] : c \in Contents}

readObject(resp) ==
  IF resp.throws THEN Err(resp.name)
  ELSE Ok(IF resp.Body.some THEN resp.Body.v ELSE <<>>)

getLatestTag(bucket, resp) ==
  LET content == readObject(resp)
  IN  IF content.ok THEN Ok(Trim(content.val))
      ELSE Err("Failed to get latest tag from bucket " \o bucket)

getLatestHash(bucket, resp) ==
  LET content == readObject(resp)
  IN  IF content.ok THEN Ok(Trim(content.val))
      ELSE Err("Failed to get latest hash from bucket " \o bucket)

\* GetObject of `${version}/${arch}/bootstrap.zip`
hasArtifact(bucket, v, arch, resp) == ~resp.throws

-----------------------------------------------------------------------------
(* CloudFormationService: lifecycle requests *)

Value(k, v) == [ParameterKey |-> k, UsePreviousValue |-> FALSE, ParameterValue |-> v]
Previous(k) == [ParameterKey |-> k, UsePreviousValue |-> TRUE, ParameterValue |-> ""]

CreateStackCommand(name, cfg) ==
  [command |-> "CreateStack",
   StackName |-> name,
   TemplateBody |-> cfg.templateBody,
   Capabilities |-> <<"CAPABILITY_IAM">>,
   Parameters |-> <<
     Value("StackName", name),
     Value("Arch", cfg.arch),
     Value("ArtifactsBucket", cfg.artifactsBucket.v),
     Value("ClapDBVersion", cfg.clapdbVersion.v),
     Value("LambdaMemorySize", ToString(cfg.lambdaMemorySize)),
     Value("EnablePrivateVPC", BoolString(cfg.enablePrivateVpc)),
     Value("EnablePrivateEndpoint", BoolString(cfg.enablePrivateEndpoint)),
     Value("EnableLogging", BoolString(cfg.enableLogging)) >>,
   UsePreviousTemplate |-> FALSE]

\* variant: the private-VPC flag of the configuration is submitted
UpdateStackCommandSendingVpc(name, cfg, templateBody) ==
  [command |-> "UpdateStack",
   StackName |-> name,
   TemplateBody |-> Some(templateBody),
   Capabilities |-> <<"CAPABILITY_NAMED_IAM">>,
   Parameters |-> <<
     Value("StackName", name),
     Previous("Arch"),
     Previous("ArtifactsBucket"),
     Value("ClapDBVersion", cfg.clapdbVersion.v),
     Value("EnablePrivateVPC", BoolString(cfg.enablePrivateVpc)),
     Previous("EnablePrivateEndpoint"),
     Value("LambdaMemorySize", ToString(cfg.lambdaMemorySize)),
     Value("DispatcherMemorySize", ToString(cfg.dispatcherMemorySize)),
     Value("ReducerMemorySize", ToString(cfg.reducerMemorySize)),
     Value("WorkerMemorySize", ToString(cfg.workerMemorySize)),
     Value("EnableLogging", BoolString(cfg.enableLogging)) >>,
   UsePreviousTemplate |-> FALSE]

\* variant: the template of the configuration is submitted, fetched or not
UpdateStackCommandSendingConfigTemplate(name, cfg, templateBody) ==
  [command |-> "UpdateStack",
   StackName |-> name,
   TemplateBody |-> cfg.templateBody,
   Capabilities |-> <<"CAPABILITY_NAMED_IAM">>,
   Parameters |-> <<
     Value("StackName", name),
     Previous("Arch"),
     Previous("ArtifactsBucket"),
     Value("ClapDBVersion", cfg.clapdbVersion.v),
     Previous("EnablePrivateVPC"),
     Previous("EnablePrivateEndpoint"),
     Value("LambdaMemorySize", ToString(cfg.lambdaMemorySize)),
     Value("DispatcherMemorySize", ToString(cfg.dispatcherMemorySize)),
     Value("ReducerMemorySize", ToString(cfg.reducerMemorySize)),
     Value("WorkerMemorySize", ToString(cfg.workerMemorySize)),
     Value("EnableLogging", BoolString(cfg.enableLogging)) >>,
   UsePreviousTemplate |-> FALSE]

UpdateStackCommand(name, cfg, templateBody) ==
  [command |-> "UpdateStack",
   StackName |-> name,
   TemplateBody |-> Some(templateBody),
   Capabilities |-> <<"CAPABILITY_NAMED_IAM">>,
   Parameters |-> <<
     Value("StackName", name),
     Previous("Arch"),
     Previous("ArtifactsBucket"),
     Value("ClapDBVersion", cfg.clapdbVersion.v),
     Previous("EnablePrivateVPC"),
     Previous("EnablePrivateEndpoint"),
     Value("LambdaMemorySize", ToString(cfg.lambdaMemorySize)),
     Value("DispatcherMemorySize", ToString(cfg.dispatcherMemorySize)),
     Value("ReducerMemorySize", ToString(cfg.reducerMemorySize)),
     Value("WorkerMemorySize", ToString(cfg.workerMemorySize)),
     Value("EnableLogging", BoolString(cfg.enableLogging)) >>,
   UsePreviousTemplate |-> FALSE]

\* the parameter a command carries under a key
Param(cmd, k) ==
  LET i == CHOOSE j \in 1..Len(cmd.Parameters) : cmd.Parameters[j].ParameterKey = k
  IN  cmd.Parameters[i]

StackIds == {"arn:stack/1"}

\* what client.send answers to CreateStack / UpdateStack
LifecycleResponses ==
  {[throws |-> TRUE, name |-> e, StackId |-> None] : e \in SdkErrors}
    \cup {[throws |-> FALSE, name |-> "", StackId |-> None]}
    \cup {[throws |-> FALSE, name |-> "", StackId |-> Some(i)] : i \in StackIds}

Templates == {"", "Resources: applied"}

GetTemplateResponses ==
  {[throws |-> TRUE, name |-> e, TemplateBody |-> None] : e \in SdkErrors}
    \cup {[throws |-> FALSE, name |-> "", TemplateBody |-> None]}
    \cup {[throws |-> FALSE, name |-> "", TemplateBody |-> Some(t)] : t \in Templates}

getTemplateBody(resp) ==
  IF resp.throws THEN Err(resp.name)
  ELSE Ok(IF resp.TemplateBody.some THEN resp.TemplateBody.v ELSE "")

-----------------------------------------------------------------------------
(* deployService / updateService *)

Region == "us-east-1"

getArtifactsBucket(region) == "clapdb-pkgs-" \o region

StackName == "clapdb-stack"

Archs == {"x86_64", "arm64"}
MemorySizes == {3008, 4096}
VersionTokens == {None, Some(<<>>), Some(Latest), Some(V3), Some(Abc)}

DefaultConfig ==
  [stackName |-> StackName, arch |-> "x86_64",
   lambdaMemorySize |-> 3008, dispatcherMemorySize |-> 3008,
   reducerMemorySize |-> 3008, workerMemorySize |-> 3008,
   enablePrivateVpc |-> FALSE, enablePrivateEndpoint |-> FALSE,
   enableLogging |-> FALSE,
   clapdbVersion |-> None, artifactsBucket |-> None, templateBody |-> None]

\* the configurations the callers pass
Configs ==
  {[DefaultConfig EXCEPT !.arch = a, !.lambdaMemorySize = m, !.enablePrivateVpc = p,
                         !.clapdbVersion = v, !.artifactsBucket = b, !.templateBody = t] :
     a \in Archs, m \in MemorySizes, p \in BOOLEAN, v \in VersionTokens,
     b \in {None, Some("my-artifacts")},
     t \in {None, Some(""), Some("Resources: supplied")}}

\* the name of the error with which client.send rejected, '' if it did not
Thrown(resp) == IF resp.throws THEN resp.name ELSE ""

NoCall(fn, bucket) ==
  [fn |-> fn, bucket |-> bucket, version |-> <<>>, arch |-> "",
   threw |-> FALSE, error |-> "", found |-> FALSE]

\* variant: one message for both call sites
NotFoundMessageOfDeploy(op) == "Invalid version"

\* the unavailable-artifact message of each call site
NotFoundMessage(op) ==
  IF op = "deployService" THEN "Invalid version"
  ELSE "Artifact not found, check the version/commit"

\* variant: the latest tag is looked up as an artifact as well
ResolveVersionAlsoChecking(op, cfg, bucket, resp) ==
  LET v == cfg.clapdbVersion
  IN  IF Falsy(v)
        THEN LET tag == getLatestTag(bucket, resp)
             IN  [calls |-> << [NoCall("getLatestTag", bucket) EXCEPT
                                  !.threw = ~tag.ok, !.error = Thrown(resp)],
                               [NoCall("hasArtifact", bucket) EXCEPT
                                  !.version = tag.val, !.arch = cfg.arch, !.found = TRUE] >>,
                  ok |-> tag.ok,
                  version |-> IF tag.ok THEN tag.val ELSE <<>>,
                  message |-> IF tag.ok THEN "" ELSE tag.val]
      ELSE IF v.v = Latest
        THEN LET hash == getLatestHash(bucket, resp)
             IN  [calls |-> << [NoCall("getLatestHash", bucket) EXCEPT
                                  !.threw = ~hash.ok, !.error = Thrown(resp)] >>,
                  ok |-> hash.ok,
                  version |-> IF hash.ok THEN hash.val ELSE <<>>,
                  message |-> IF hash.ok THEN "" ELSE hash.val]
      ELSE LET found == hasArtifact(bucket, v.v, cfg.arch, resp)
           IN  [calls |-> << [NoCall("hasArtifact", bucket) EXCEPT
                                !.version = v.v, !.arch = cfg.arch,
                                !.threw = resp.throws, !.error = Thrown(resp),
                                !.found = found] >>,
                ok |-> found,
                version |-> v.v,
                message |-> IF found THEN "" ELSE NotFoundMessage(op)]

\* variant: the answer of the artifact lookup is not tested
ResolveVersionIgnoringCheck(op, cfg, bucket, resp) ==
  LET v == cfg.clapdbVersion
  IN  IF Falsy(v)
        THEN LET tag == getLatestTag(bucket, resp)
             IN  [calls |-> << [NoCall("getLatestTag", bucket) EXCEPT
                                  !.threw = ~tag.ok, !.error = Thrown(resp)] >>,
                  ok |-> tag.ok,
                  version |-> IF tag.ok THEN tag.val ELSE <<>>,
                  message |-> IF tag.ok THEN "" ELSE tag.val]
      ELSE IF v.v = Latest
        THEN LET hash == getLatestHash(bucket, resp)
             IN  [calls |-> << [NoCall("getLatestHash", bucket) EXCEPT
                                  !.threw = ~hash.ok, !.error = Thrown(resp)] >>,
                  ok |-> hash.ok,
                  version |-> IF hash.ok THEN hash.val ELSE <<>>,
                  message |-> IF hash.ok THEN "" ELSE hash.val]
      ELSE LET found == hasArtifact(bucket, v.v, cfg.arch, resp)
           IN  [calls |-> << [NoCall("hasArtifact", bucket) EXCEPT
                                !.version = v.v, !.arch = cfg.arch,
                                !.threw = resp.throws, !.error = Thrown(resp),
                                !.found = found] >>,
                ok |-> TRUE,
                version |-> v.v,
                message |-> ""]

\* the if / else-if / else on version: the store calls made, and the version or
\* the error that results
ResolveVersion(op, cfg, bucket, resp) ==
  LET v == cfg.clapdbVersion
  IN  IF Falsy(v)
        THEN LET tag == getLatestTag(bucket, resp)
             IN  [calls |-> << [NoCall("getLatestTag", bucket) EXCEPT
                                  !.threw = ~tag.ok, !.error = Thrown(resp)] >>,
                  ok |-> tag.ok,
                  version |-> IF tag.ok THEN tag.val ELSE <<>>,
                  message |-> IF tag.ok THEN "" ELSE tag.val]
      ELSE IF v.v = Latest
        THEN LET hash == getLatestHash(bucket, resp)
             IN  [calls |-> << [NoCall("getLatestHash", bucket) EXCEPT
                                  !.threw = ~hash.ok, !.error = Thrown(resp)] >>,
                  ok |-> hash.ok,
                  version |-> IF hash.ok THEN hash.val ELSE <<>>,
                  message |-> IF hash.ok THEN "" ELSE hash.val]
      ELSE LET found == hasArtifact(bucket, v.v, cfg.arch, resp)
           IN  [calls |-> << [NoCall("hasArtifact", bucket) EXCEPT
                                !.version = v.v, !.arch = cfg.arch,
                                !.threw = resp.throws, !.error = Thrown(resp),
                                !.found = found] >>,
                ok |-> found,
                version |-> v.v,
                message |-> IF found THEN "" ELSE NotFoundMessage(op)]

\* config.artifactsBucket ?? getArtifactsBucket(this._region)
BucketOf(cfg) ==
  IF cfg.artifactsBucket.some THEN cfg.artifactsBucket.v ELSE getArtifactsBucket(Region)

\* { ...config, clapdbVersion: version, artifactsBucket: bucket }
ResolvedConfig(cfg, v) ==
  [cfg EXCEPT !.clapdbVersion = v, !.artifactsBucket = Some(BucketOf(cfg))]

NoResult == [result |-> "none", message |-> "", returned |-> ""]

\* updateStack before let templateBody = config.templateBody
NoTemplate == [fetches |-> 0, fetched |-> Ok(""), body |-> None]

InitIdleService ==
  /\ svcOp = "none"
  /\ config = DefaultConfig
  /\ svcPc = "idle"
  /\ version = None
  /\ storeCalls = <<>>
  /\ requests = <<>>
  /\ svcResult = NoResult
  /\ template = NoTemplate

InitService ==
  /\ svcOp \in {"deployService", "updateService"}
  /\ config \in Configs
  /\ svcPc = "resolve"
  /\ version = config.clapdbVersion
  /\ storeCalls = <<>>
  /\ requests = <<>>
  /\ svcResult = NoResult
  /\ template = NoTemplate

InitIdleWatch ==
  /\ action = Deploy
  /\ pc = "idle"
  /\ observed = NoQuery
  /\ recheck = NoQuery
  /\ nQueries = 0
  /\ firstCompletedAt = 0
  /\ result = "none"
  /\ errorMessage = ""
  /\ spinnerStops = 0
  /\ spinnerText = InitialText
  /\ resourceFetch = NoFetch

ServiceEnds(r) ==
  /\ svcPc' = "done"
  /\ svcResult' = r

\* the version branch of deployService / updateService, with its store call
Resolve ==
  /\ svcPc = "resolve"
  /\ \E resp \in GetObjectResponses :
       LET r == ResolveVersion(svcOp, config, BucketOf(config), resp)
       IN  /\ storeCalls' = storeCalls \o r.calls
           /\ IF r.ok
                THEN /\ version' = Some(r.version)
                     /\ svcPc' = IF svcOp = "deployService" THEN "createStack"
                                 ELSE IF FalsyText(config.templateBody) THEN "getTemplateBody"
                                 ELSE "updateStack"
                     /\ template' = IF svcOp = "deployService" THEN template
                                    ELSE [template EXCEPT !.body = config.templateBody]
                     /\ UNCHANGED svcResult
                ELSE /\ ServiceEnds([NoResult EXCEPT !.result = "error",
                                                      !.message = r.message])
                     /\ UNCHANGED <<version, template>>
  /\ UNCHANGED <<impl, watchVars, svcOp, config, requests, extVars>>

\* the answer of client.send to a lifecycle command
Sent(resp) ==
  IF resp.throws THEN [NoResult EXCEPT !.result = "error", !.message = resp.name]
  ELSE [NoResult EXCEPT !.result = "success",
                        !.returned = IF resp.StackId.some THEN resp.StackId.v ELSE ""]

\* this.cloudformation.createStack(stackName, deployConfig)
CreateStack ==
  /\ svcPc = "createStack"
  /\ requests' = Append(requests,
                        CreateStackCommand(StackName, ResolvedConfig(config, version)))
  /\ \E resp \in LifecycleResponses : ServiceEnds(Sent(resp))
  /\ UNCHANGED <<impl, watchVars, svcOp, config, version, storeCalls, template, extVars>>

\* updateStack without a template body: templateBody = await this.getTemplateBody(name)
GetTemplateBody ==
  /\ svcPc = "getTemplateBody"
  /\ \E resp \in GetTemplateResponses :
       LET body == getTemplateBody(resp)
       IN  /\ template' = [fetches |-> template.fetches + 1, fetched |-> body,
                           body |-> IF body.ok THEN Some(body.val) ELSE template.body]
           /\ IF body.ok
                THEN /\ svcPc' = "updateStack"
                     /\ UNCHANGED svcResult
              ELSE ServiceEnds([NoResult EXCEPT !.result = "error", !.message = body.val])
  /\ UNCHANGED <<impl, watchVars, svcOp, config, version, storeCalls, requests, extVars>>

\* updateStack: client.send(new UpdateStackCommand(...))
UpdateStack ==
  /\ svcPc = "updateStack"
  /\ requests' = Append(requests,
                        UpdateStackCommand(StackName, ResolvedConfig(config, version),
                                           template.body.v))
  /\ \E resp \in LifecycleResponses : ServiceEnds(Sent(resp))
  /\ UNCHANGED <<impl, watchVars, svcOp, config, version, storeCalls, template, extVars>>

-----------------------------------------------------------------------------
(* CloudFormationService: hasStack and the memoized outputs *)

\* variant: every failure of the query means that the stack is not there
hasStackCatchingAll(resp) ==
  IF resp.throws THEN Ok(FALSE) ELSE Ok(Len(resp.stacks) > 0)

\* try { send(DescribeStacks) ... } catch (err) { ValidationError: false; else rethrow }
hasStack(resp) ==
  IF resp.throws
    THEN IF resp.name = "ValidationError" THEN Ok(FALSE) ELSE Err(resp.name)
  ELSE Ok(Len(resp.stacks) > 0)

DataApiUrl == "ClapDataApiURL"
LicenseApiUrl == "ClapLicenseApiURL"
InitLambda == "ClapDBInitLambda"

\* Output.OutputKey and Output.OutputValue; '' stands for a missing or empty one
StackOutput ==
  [OutputKey : {"", DataApiUrl}, OutputValue : {"", "https://a", "https://b"}]

DescribeOutputsResponses ==
  {[throws |-> TRUE, name |-> e, Stacks |-> <<>>] : e \in SdkErrors}
    \cup {[throws |-> FALSE, name |-> "", Stacks |-> <<>>]}
    \cup {[throws |-> FALSE, name |-> "", Stacks |-> <<os>>] :
            os \in SeqsUpTo(StackOutput, MaxOutputs)}

\* Map.get(k) ?? d
RECURSIVE MapGet(_, _, _)
MapGet(m, k, d) ==
  IF m = <<>> THEN d
  ELSE IF Head(m).key = k THEN Head(m).value ELSE MapGet(Tail(m), k, d)

\* for (const output of stack.Outputs ?? []) if (key && value) outputs.set(key, value)
RECURSIVE SetOutputs(_, _)
SetOutputs(m, os) ==
  IF os = <<>> THEN m
  ELSE SetOutputs(IF Head(os).OutputKey # "" /\ Head(os).OutputValue # ""
                    THEN MapSet(m, Head(os).OutputKey, Head(os).OutputValue)
                  ELSE m,
                  Tail(os))

RECURSIVE SetStacks(_, _)
SetStacks(m, stacks) ==
  IF stacks = <<>> THEN m ELSE SetStacks(SetOutputs(m, Head(stacks)), Tail(stacks))

\* the first output of each stack only
FirstOnly(stacks) ==
  [i \in 1..Len(stacks) |-> IF stacks[i] = <<>> THEN <<>> ELSE <<Head(stacks[i])>>]

\* variant: the refill stops after the first output
getOutputsFillingFirstOnly(outs, resp) ==
  IF resp.throws
    THEN [queries |-> 1, threw |-> TRUE, error |-> resp.name, outputs |-> outs]
  ELSE [queries |-> 1, threw |-> FALSE, error |-> "",
        outputs |-> SetStacks(<<>>, FirstOnly(resp.Stacks))]

\* getOutputs: the query, then this.outputs.clear() and the refill
getOutputs(outs, resp) ==
  IF resp.throws
    THEN [queries |-> 1, threw |-> TRUE, error |-> resp.name, outputs |-> outs]
  ELSE [queries |-> 1, threw |-> FALSE, error |-> "",
        outputs |-> SetStacks(<<>>, resp.Stacks)]

\* variant: a getter that refreshes the map on every call
getEndpointAlwaysQuerying(key, outs, resp) ==
  LET got == getOutputs(outs, resp)
  IN  [queries |-> got.queries, threw |-> got.threw, error |-> got.error,
       outputs |-> got.outputs,
       returned |-> IF got.threw THEN "" ELSE MapGet(got.outputs, key, "")]

\* getDataApiUrl / getLicenseApiUrl / getInitLambdaName, each with its key
getEndpoint(key, outs, resp) ==
  IF Len(outs) = 0
    THEN LET got == getOutputs(outs, resp)
         IN  [queries |-> got.queries, threw |-> got.threw, error |-> got.error,
              outputs |-> got.outputs,
              returned |-> IF got.threw THEN "" ELSE MapGet(got.outputs, key, "")]
  ELSE [queries |-> 0, threw |-> FALSE, error |-> "", outputs |-> outs,
        returned |-> MapGet(outs, key, "")]

Getters ==
  [getDataApiUrl |-> DataApiUrl, getLicenseApiUrl |-> LicenseApiUrl,
   getInitLambdaName |-> InitLambda]

\* stackName of the calls made on the instance
StackNames == {"clapdb-a", "clapdb-b"}

\* the getters that get_deployment_status starts together
Tasks == {"getDataApiUrl", "getLicenseApiUrl"}

NoAnswer == [throws |-> FALSE, name |-> "", Stacks |-> <<>>]

NoTask ==
  [pc |-> "idle", name |-> "", received |-> FALSE, answer |-> NoAnswer,
   threw |-> FALSE, error |-> "", returned |-> ""]

NoCfnCall ==
  [fn |-> "none", name |-> "", sizeBefore |-> 0, queries |-> 0, sent |-> "", nStacks |-> 0,
   threw |-> FALSE, error |-> "", returned |-> "", has |-> FALSE]

InitIdleCfn ==
  /\ outputs = <<>>
  /\ outputsOf = ""
  /\ tasks = [t \in Tasks |-> NoTask]
  /\ cfnCall = NoCfnCall
  /\ nCalls = 0

\* a call of one of the three endpoint getters
GetEndpoint ==
  /\ nCalls < MaxCalls
  /\ \E fn \in DOMAIN Getters, name \in StackNames, resp \in DescribeOutputsResponses :
       LET r == getEndpoint(Getters[fn], outputs, resp)
       IN  /\ outputs' = r.outputs
           /\ outputsOf' = IF r.queries = 1 /\ ~r.threw THEN name ELSE outputsOf
           /\ cfnCall' = [NoCfnCall EXCEPT !.fn = fn, !.name = name, !.sizeBefore = Len(outputs),
                                           !.queries = r.queries, !.threw = r.threw,
                                           !.error = r.error, !.returned = r.returned]
  /\ nCalls' = nCalls + 1
  /\ UNCHANGED <<impl, watchVars, svcVars, cmdVars, regVars, tasks, credVars>>

\* a call of getOutputs by a user of the instance
GetOutputs ==
  /\ nCalls < MaxCalls
  /\ \E name \in StackNames, resp \in DescribeOutputsResponses :
       LET r == getOutputs(outputs, resp)
       IN  /\ outputs' = r.outputs
           /\ outputsOf' = IF r.threw THEN outputsOf ELSE name
           /\ cfnCall' = [NoCfnCall EXCEPT !.fn = "getOutputs", !.name = name, !.sizeBefore = Len(outputs),
                                           !.queries = r.queries, !.threw = r.threw,
                                           !.error = r.error]
  /\ nCalls' = nCalls + 1
  /\ UNCHANGED <<impl, watchVars, svcVars, cmdVars, regVars, tasks, credVars>>

\* a call of hasStack
HasStack ==
  /\ nCalls < MaxCalls
  /\ \E resp \in DescribeStacksResponses :
       LET r == hasStack(resp)
       IN  cfnCall' = [NoCfnCall EXCEPT !.fn = "hasStack", !.sizeBefore = Len(outputs),
                                        !.queries = 1, !.sent = Thrown(resp),
                                        !.nStacks = Len(resp.stacks),
                                        !.threw = ~r.ok,
                                        !.error = IF r.ok THEN "" ELSE r.val,
                                        !.has = r.ok /\ r.val]
  /\ nCalls' = nCalls + 1
  /\ UNCHANGED <<impl, watchVars, svcVars, cmdVars, regVars, outputs, outputsOf, tasks, credVars>>

\* the outputs of a deployed stack: both endpoints, each with a value
EndpointOutput ==
  [OutputKey : {DataApiUrl, LicenseApiUrl}, OutputValue : {"https://a", "https://b"}]

StatusResponses ==
  {[throws |-> TRUE, name |-> "ThrottlingException", Stacks |-> <<>>]}
    \cup {[throws |-> FALSE, name |-> "", Stacks |-> <<>>]}
    \cup {[throws |-> FALSE, name |-> "", Stacks |-> <<os>>] :
            os \in SeqsUpTo(EndpointOutput, MaxStatusOutputs)}

\* get_deployment_status: Promise.all starts both getters on the new provider;
\* each tests outputs.size and sends its query before any answer arrives
GetDeploymentStatus ==
  /\ \A t \in Tasks : tasks[t].pc = "idle"
  /\ nCalls = 0
  /\ \E name \in StackNames :
       tasks' = [t \in Tasks |->
                  [NoTask EXCEPT !.name = name,
                                 !.pc = IF Len(outputs) = 0 THEN "send" ELSE "get"]]
  /\ UNCHANGED <<impl, watchVars, svcVars, cmdVars, regVars, outputs, outputsOf,
                 cfnCall, nCalls, credVars>>

\* the answer to the query of a getter arrives: getOutputs resumes, clears and
\* refills the map without another await in between, or the getter rejects
Receive(t) ==
  /\ tasks[t].pc = "send"
  /\ \E resp \in StatusResponses :
       LET r == getOutputs(outputs, resp)
       IN  /\ outputs' = r.outputs
           /\ outputsOf' = IF r.threw THEN outputsOf ELSE tasks[t].name
           /\ tasks' = [tasks EXCEPT ![t] =
                          [@ EXCEPT !.pc = IF r.threw THEN "done" ELSE "get",
                                    !.received = TRUE, !.answer = resp,
                                    !.threw = r.threw, !.error = r.error]]
  /\ UNCHANGED <<impl, watchVars, svcVars, cmdVars, regVars, cfnCall, nCalls, credVars>>

\* the getter resumes after its await and reads its key from the map
Resume(t) ==
  /\ tasks[t].pc = "get"
  /\ tasks' = [tasks EXCEPT ![t] =
                 [@ EXCEPT !.pc = "done", !.returned = MapGet(outputs, Getters[t], "")]]
  /\ UNCHANGED <<impl, watchVars, svcVars, cmdVars, regVars, outputs, outputsOf,
                 cfnCall, nCalls, credVars>>

-----------------------------------------------------------------------------
(* Entry points: the deploy command, the update command, the MCP deploy tool *)

Digits == <<"0", "1", "2", "3", "4", "5", "6", "7", "8", "9">>
IsDigit(c) == \E d \in 1..10 : Digits[d] = c
DigitValue(c) == (CHOOSE d \in 1..10 : Digits[d] = c) - 1

RECURSIVE ParseDigits(_, _)
ParseDigits(s, acc) ==
  IF s = <<>> \/ ~IsDigit(Head(s)) THEN acc
  ELSE ParseDigits(Tail(s), acc * 10 + DigitValue(Head(s)))

\* Number.parseInt of a string that starts with a digit: its leading digits
ParseInt(s) == ParseDigits(s, 0)

S3008 == <<"3", "0", "0", "8">>
S4096 == <<"4", "0", "9", "6">>
S512Mb == <<"5", "1", "2", "M", "B">>

\* a boolean option of commander: undefined unless the flag is given
NoFlag == [some |-> FALSE, v |-> FALSE]
Flag(b) == [some |-> TRUE, v |-> b]
Flags == {NoFlag, Flag(TRUE)}

\* x ?? d
OrElse(x, d) == IF x.some THEN x.v ELSE d

\* x used as a condition
Truthy(x) == x.some /\ x.v

NoOptions ==
  [arch |-> None, lambdaMemorySize |-> None, privateVpc |-> NoFlag,
   privateEndpoint |-> NoFlag, logging |-> NoFlag, commit |-> None]

Commits == {None, Some(Latest), Some(V3)}

\* deploy: arch and the memory sizes have default values
DeployOptions ==
  {[arch |-> Some(a), lambdaMemorySize |-> Some(m), privateVpc |-> p,
    privateEndpoint |-> e, logging |-> l, commit |-> c] :
     a \in {"x86_64", "arm64", "x86"}, m \in {S3008, S4096}, p \in Flags, e \in Flags,
     l \in Flags, c \in Commits}

\* update: no option for arch, private VPC, private endpoint; no default values
UpdateOptions ==
  {[NoOptions EXCEPT !.lambdaMemorySize = m, !.logging = l, !.commit = c] :
     m \in {None, Some(S4096), Some(S512Mb)}, l \in Flags, c \in Commits}

\* the MCP deploy tool reads args.arch only
McpDeployArgs == {[NoOptions EXCEPT !.arch = a] : a \in {None, Some("arm64")}}

\* the parameter values of a deployed stack
DefaultParameters ==
  [Arch |-> "x86_64", ArtifactsBucket |-> getArtifactsBucket(Region),
   EnablePrivateVPC |-> "false", EnablePrivateEndpoint |-> "false",
   LambdaMemorySize |-> "3008", DispatcherMemorySize |-> "3008",
   ReducerMemorySize |-> "3008", WorkerMemorySize |-> "3008",
   EnableLogging |-> "false"]

StackParameters ==
  {[DefaultParameters EXCEPT !.Arch = a, !.EnablePrivateVPC = p,
                             !.LambdaMemorySize = m, !.EnableLogging = l] :
     a \in Archs, p \in {"true", "false"}, m \in {"3008", "4096"}, l \in {"true", "false"}}

\* variant: no test of the two network flags
PrivateEndpointWithoutVpcUnchecked(opts) == FALSE

\* options.privateEndpoint && !options.privateVpc
PrivateEndpointWithoutVpc(opts) == Truthy(opts.privateEndpoint) /\ ~Truthy(opts.privateVpc)

\* arch === 'x86' || arch === 'x64' ? 'x86_64' : arch
NormalizeArch(arch) == IF arch \in {"x86", "x64"} THEN "x86_64" ELSE arch

\* const config: DeployConfiguration = { ... } of deploy
DeployCommandConfig(opts) ==
  [DefaultConfig EXCEPT
     !.arch = NormalizeArch(opts.arch.v),
     !.lambdaMemorySize = ParseInt(opts.lambdaMemorySize.v),
     !.enablePrivateVpc = OrElse(opts.privateVpc, FALSE),
     !.enablePrivateEndpoint = OrElse(opts.privateEndpoint, FALSE),
     !.enableLogging = OrElse(opts.logging, FALSE),
     !.clapdbVersion = opts.commit,
     !.artifactsBucket = Some(getArtifactsBucket(Region))]

\* const config: DeployConfiguration = { ... } of update
UpdateCommandConfig(opts) ==
  [DefaultConfig EXCEPT
     !.arch = "x86_64",
     !.lambdaMemorySize =
        IF ~Falsy(opts.lambdaMemorySize) THEN ParseInt(opts.lambdaMemorySize.v) ELSE 3008,
     !.dispatcherMemorySize = 3008,
     !.reducerMemorySize = 3008,
     !.workerMemorySize = 3008,
     !.enablePrivateVpc = FALSE,
     !.enablePrivateEndpoint = FALSE,
     !.enableLogging = OrElse(opts.logging, FALSE),
     !.clapdbVersion = opts.commit,
     !.artifactsBucket = Some(getArtifactsBucket(Region))]

\* const config = { ... } of the MCP deploy tool
McpDeployConfig(args) ==
  [DefaultConfig EXCEPT
     !.arch = OrElse(args.arch, "x86_64"),
     !.artifactsBucket = Some(getArtifactsBucket(Region))]

Rejected(m) == [NoResult EXCEPT !.result = "rejected", !.message = m]
Failed(m) == [NoResult EXCEPT !.result = "error", !.message = m]

InitIdleCommand ==
  /\ command = "none"
  /\ options = NoOptions
  /\ stackParameters = DefaultParameters

\* the entry point hands config to deployService / updateService
CallService(cfg) ==
  /\ config' = cfg
  /\ version' = cfg.clapdbVersion
  /\ svcPc' = "resolve"
  /\ UNCHANGED svcResult

\* deploy(awsService, options), up to the call of deployService
DeployCommand ==
  /\ command = "deploy"
  /\ svcPc = "command"
  /\ \E valid \in BOOLEAN :
       IF ~valid
         THEN ServiceEnds(Rejected("Invalid user configuration")) /\ UNCHANGED <<config, version>>
       ELSE IF PrivateEndpointWithoutVpc(options)
         THEN /\ ServiceEnds(Rejected("private endpoint must be used with private-vpc=true"))
              /\ UNCHANGED <<config, version>>
       ELSE CallService(DeployCommandConfig(options))
  /\ UNCHANGED <<impl, watchVars, svcOp, storeCalls, requests, template, extVars>>

\* the action of updateCommand, up to the call of updateService
UpdateCommand ==
  /\ command = "update"
  /\ svcPc = "command"
  /\ \E resp \in DescribeStacksResponses :
       LET exists == hasStack(resp)
       IN  IF ~exists.ok
             THEN ServiceEnds(Failed(exists.val)) /\ UNCHANGED <<config, version>>
           ELSE IF ~exists.val
             THEN ServiceEnds(Rejected("Stack not found")) /\ UNCHANGED <<config, version>>
           ELSE CallService(UpdateCommandConfig(options))
  /\ UNCHANGED <<impl, watchVars, svcOp, storeCalls, requests, template, extVars>>

\* the deploy tool of the MCP server, up to the call of deployService
McpDeploy ==
  /\ command = "mcp_deploy"
  /\ svcPc = "command"
  /\ \E resp \in DescribeStacksResponses, valid \in BOOLEAN :
       LET exists == hasStack(resp)
       IN  IF ~exists.ok
             THEN ServiceEnds(Failed(exists.val)) /\ UNCHANGED <<config, version>>
           ELSE IF exists.val
             THEN ServiceEnds(Failed("Stack already exists")) /\ UNCHANGED <<config, version>>
           ELSE IF ~valid
             THEN /\ ServiceEnds(Failed("Password must contain lowercase, uppercase, digit, and special character"))
                  /\ UNCHANGED <<config, version>>
           ELSE CallService(McpDeployConfig(options))
  /\ UNCHANGED <<impl, watchVars, svcOp, storeCalls, requests, template, extVars>>

-----------------------------------------------------------------------------
(* The registry of cloud providers *)

UpperCase == <<"A", "W", "S", "G", "C", "P">>
LowerCase == <<"a", "w", "s", "g", "c", "p">>

LowerChar(c) ==
  IF \E i \in 1..Len(UpperCase) : UpperCase[i] = c
    THEN LowerCase[CHOOSE i \in 1..Len(UpperCase) : UpperCase[i] = c]
  ELSE c

\* String.prototype.toLowerCase
ToLowerCase(s) == [i \in 1..Len(s) |-> LowerChar(s[i])]

ProviderNames ==
  {<<"a", "w", "s">>, <<"A", "w", "S">>, <<"g", "c", "p">>, <<>>}

\* the names asked of createCloudProvider
RequestedNames == ProviderNames \cup {<<"a", "z", "u", "r", "e">>}

\* factories; '' stands for undefined
Factories == {"awsFactory", "testFactory"}
Profiles == {"default", "prod"}

\* variant: the name is stored as given
registerCloudProviderKeepingCase(m, name, factory) == MapSet(m, name, factory)

\* variant: a name that is registered keeps its factory
registerCloudProviderKeepingFirst(m, name, factory) ==
  IF MapGet(m, ToLowerCase(name), "") # "" THEN m
  ELSE MapSet(m, ToLowerCase(name), factory)

\* providerFactories.set(name.toLowerCase(), factory)
registerCloudProvider(m, name, factory) == MapSet(m, ToLowerCase(name), factory)

\* Array.from(providerFactories.keys())
getRegisteredProviders(m) == [i \in 1..Len(m) |-> m[i].key]

\* Array.prototype.join
RECURSIVE Join(_, _)
Join(strings, sep) ==
  IF strings = <<>> THEN <<>>
  ELSE IF Len(strings) = 1 THEN strings[1]
  ELSE strings[1] \o sep \o Join(Tail(strings), sep)

NoneText == <<"n", "o", "n", "e">>

\* `Unknown cloud provider: ${name}. Available: ${available}`
UnknownProvider(name, available) == [name |-> name, available |-> available]
NoMessage == [name |-> <<>>, available |-> <<>>]

NoCreate ==
  [called |-> FALSE, at |-> 0, name |-> <<>>, profile |-> "", threw |-> FALSE,
   invoked |-> "", given |-> "", message |-> NoMessage]

\* variant: the list of names is written as it is
createCloudProviderWithoutNone(m, name, profile) ==
  LET factory == MapGet(m, ToLowerCase(name), "")
      available == Join(getRegisteredProviders(m), <<",", " ">>)
  IN  IF factory = ""
        THEN [NoCreate EXCEPT !.called = TRUE, !.name = name, !.profile = profile,
                              !.threw = TRUE,
                              !.message = UnknownProvider(name, available)]
      ELSE [NoCreate EXCEPT !.called = TRUE, !.name = name, !.profile = profile,
                            !.invoked = factory, !.given = profile]

createCloudProvider(m, name, profile) ==
  LET factory == MapGet(m, ToLowerCase(name), "")
      available == Join(getRegisteredProviders(m), <<",", " ">>)
  IN  IF factory = ""
        THEN [NoCreate EXCEPT !.called = TRUE, !.name = name, !.profile = profile,
                              !.threw = TRUE,
                              !.message = UnknownProvider(name,
                                            IF available = <<>> THEN NoneText
                                            ELSE available)]
      ELSE [NoCreate EXCEPT !.called = TRUE, !.name = name, !.profile = profile,
                            !.invoked = factory, !.given = profile]

InitIdleRegistry ==
  /\ providerFactories = <<>>
  /\ registrations = <<>>
  /\ created = NoCreate

\* a call of registerCloudProvider
RegisterCloudProvider ==
  /\ Len(registrations) < MaxRegistrations
  /\ \E name \in ProviderNames, factory \in Factories :
       /\ providerFactories' = registerCloudProvider(providerFactories, name, factory)
       /\ registrations' = Append(registrations, [name |-> name, factory |-> factory])
  /\ UNCHANGED <<impl, watchVars, svcVars, cmdVars, cfnVars, created, credVars>>

\* a call of createCloudProvider
CreateCloudProvider ==
  /\ \E name \in RequestedNames, profile \in Profiles :
       created' = [createCloudProvider(providerFactories, name, profile) EXCEPT
                     !.at = Len(registrations)]
  /\ UNCHANGED <<impl, watchVars, svcVars, cmdVars, cfnVars, providerFactories,
                 registrations, credVars>>

-----------------------------------------------------------------------------
(* ClapDBCredential: the profiles of ~/.clapdb/credentials.json *)

Urls == {"https://data.clapdb.io", "https://license.clapdb.io"}

\* the public fields of a new ClapDBCredential
EmptyFields ==
  [dataApiEndpoint |-> "", licenseApiEndpoint |-> "", tenant |-> "", database |-> "",
   username |-> "", password |-> "", sandbox |-> FALSE]

\* profiles[stackName] undefined
NoProfile == [stored |-> FALSE, fields |-> EmptyFields]

\* { version: '1.0', profiles: {} }
EmptyProfiles == [n \in StackNames |-> NoProfile]

\* z.string().url() on the values of the model
IsUrl(s) == s \in Urls

\* createdAt and updatedAt are written by save as ISO strings and always pass
ClapDBCredentialSchema(p) ==
  /\ IsUrl(p.dataApiEndpoint)
  /\ IsUrl(p.licenseApiEndpoint)
  /\ Len(p.tenant) >= 1
  /\ Len(p.database) >= 1
  /\ Len(p.username) >= 1
  /\ Len(p.password) >= 8

\* profiles: z.record(z.string(), ClapDBCredentialSchema)
CredentialFileSchema(profiles) ==
  \A n \in StackNames : profiles[n].stored => ClapDBCredentialSchema(profiles[n].fields)

\* this.credentialFile after loadCredentialFile: a parse that throws gives no profiles
loadCredentialFile(f) ==
  IF ~f.exists THEN EmptyProfiles
  ELSE IF CredentialFileSchema(f.profiles) THEN f.profiles
  ELSE EmptyProfiles

\* loadClapDBCredential(stackName): new ClapDBCredential, then load
loadClapDBCredential(name, f) ==
  LET credentialFile == loadCredentialFile(f)
      profile == credentialFile[name]
  IN  [stackName |-> name, op |-> "load", credentialFile |-> credentialFile,
       fields |-> IF profile.stored THEN profile.fields ELSE EmptyFields]

\* the instance and the file after save
save(c) ==
  LET credentialFile == [c.credentialFile EXCEPT ![c.stackName] =
                           [stored |-> TRUE, fields |-> c.fields]]
  IN  [cred |-> [c EXCEPT !.credentialFile = credentialFile],
       file |-> [exists |-> TRUE, profiles |-> credentialFile]]

\* the instance and the file after delete
delete(c, f) ==
  LET credentialFile == [loadCredentialFile(f) EXCEPT ![c.stackName] = NoProfile]
  IN  [cred |-> [c EXCEPT !.credentialFile = credentialFile],
       file |-> [exists |-> TRUE, profiles |-> credentialFile]]

\* newValue || currentValue
Prompted(newValue, currentValue) == IF newValue = "" THEN currentValue ELSE newValue

isEmpty(p) ==
  /\ p.dataApiEndpoint = "" /\ p.licenseApiEndpoint = "" /\ p.tenant = ""
  /\ p.database = "" /\ p.username = "" /\ p.password = ""

\* what the user types at the six prompts of configure
ConfigureInputs ==
  {EmptyFields,
   [EmptyFields EXCEPT !.tenant = "acme"],
   [dataApiEndpoint |-> "https://data.clapdb.io",
    licenseApiEndpoint |-> "https://license.clapdb.io", tenant |-> "acme",
    database |-> "local", username |-> "root", password |-> "Secret-pass1",
    sandbox |-> FALSE]}

InitIdleCredentials ==
  /\ file = [exists |-> FALSE, profiles |-> EmptyProfiles]
  /\ cred = [stackName |-> "", op |-> "none", credentialFile |-> EmptyProfiles,
             fields |-> EmptyFields]

Saved(c, op) ==
  LET after == save(c)
  IN  /\ cred' = [after.cred EXCEPT !.op = op]
      /\ file' = after.file

\* the end of the deploy command: the endpoints read from the stack, the user
SaveDeployed ==
  /\ \E name \in StackNames, dataApiUrl \in {"", "https://data.clapdb.io"},
        licenseApiUrl \in {"", "https://license.clapdb.io"} :
       LET credential == loadClapDBCredential(name, file)
       IN  Saved([credential EXCEPT !.fields =
                    [dataApiEndpoint |-> dataApiUrl, licenseApiEndpoint |-> licenseApiUrl,
                     tenant |-> "clapdb", database |-> "local", username |-> "root",
                     password |-> "Secret-pass1", sandbox |-> FALSE]],
                 "deploy")
  /\ UNCHANGED <<impl, watchVars, svcVars, cmdVars, cfnVars, regVars>>

\* the deploy_clapdb tool: tenant, database, username and password only
DeployClapdbTool ==
  /\ \E name \in StackNames :
       LET credential == loadClapDBCredential(name, file)
       IN  Saved([credential EXCEPT !.fields.tenant = "clapdb", !.fields.database = "local",
                                   !.fields.username = "root",
                                   !.fields.password = "Secret-pass1"],
                 "deploy_clapdb")
  /\ UNCHANGED <<impl, watchVars, svcVars, cmdVars, cfnVars, regVars>>

\* configure: each field prompted, saved unless all are empty
HandleClapDB ==
  /\ \E name \in StackNames, typed \in ConfigureInputs :
       LET credential == loadClapDBCredential(name, file)
           fields == [k \in DOMAIN EmptyFields |->
                       IF k = "sandbox" THEN credential.fields[k]
                       ELSE Prompted(typed[k], credential.fields[k])]
           prompted == [credential EXCEPT !.fields = fields]
       IN  IF ~isEmpty(fields) THEN Saved(prompted, "configure")
           ELSE /\ cred' = [prompted EXCEPT !.op = "configure"]
                /\ file' = file
  /\ UNCHANGED <<impl, watchVars, svcVars, cmdVars, cfnVars, regVars>>

\* the end of the delete command and of the delete_deployment tool
DeleteCredential ==
  /\ \E name \in StackNames :
       LET after == delete(loadClapDBCredential(name, file), file)
       IN  /\ cred' = [after.cred EXCEPT !.op = "delete"]
           /\ file' = after.file
  /\ UNCHANGED <<impl, watchVars, svcVars, cmdVars, cfnVars, regVars>>

-----------------------------------------------------------------------------
(* Specifications *)

InitK ==
  /\ impl \in Implementations
  /\ InitIdleWatch
  /\ InitIdleService
  /\ InitIdleCommand
  /\ InitIdleCfn
  /\ InitIdleRegistry
  /\ InitIdleCredentials

NextCredentials == SaveDeployed \/ DeployClapdbTool \/ HandleClapDB \/ DeleteCredential

\* the handlers that write the credential file
SpecCredentials == InitK /\ [][NextCredentials]_vars

InitW ==
  /\ impl \in Implementations
  /\ InitWatch
  /\ InitIdleService
  /\ InitIdleCommand
  /\ InitIdleCfn
  /\ InitIdleRegistry
  /\ InitIdleCredentials

NextWatch == CheckCompleted \/ ShowProgress \/ CheckFailed

\* one call of watchService
SpecWatch == InitW /\ [][NextWatch]_vars

InitD ==
  /\ impl \in Implementations
  /\ InitIdleWatch
  /\ InitService
  /\ InitIdleCommand
  /\ InitIdleCfn
  /\ InitIdleRegistry
  /\ InitIdleCredentials

NextDeploy == Resolve \/ CreateStack \/ GetTemplateBody \/ UpdateStack

\* one call of deployService or updateService
SpecDeploy == InitD /\ [][NextDeploy]_vars

InitC ==
  /\ command \in {"deploy", "update", "mcp_deploy"}
  /\ impl = (IF command = "mcp_deploy" THEN "AWSCloudProvider" ELSE "AWSService")
  /\ svcOp = (IF command = "update" THEN "updateService" ELSE "deployService")
  /\ options \in (CASE command = "deploy" -> DeployOptions
                     [] command = "update" -> UpdateOptions
                     [] command = "mcp_deploy" -> McpDeployArgs)
  /\ stackParameters \in (IF command = "update" THEN StackParameters
                           ELSE {DefaultParameters})
  /\ config = DefaultConfig
  /\ svcPc = "command"
  /\ version = None
  /\ storeCalls = <<>>
  /\ requests = <<>>
  /\ svcResult = NoResult
  /\ template = NoTemplate
  /\ InitIdleWatch
  /\ InitIdleCfn
  /\ InitIdleRegistry
  /\ InitIdleCredentials

NextCommand ==
  \/ DeployCommand \/ UpdateCommand \/ McpDeploy
  \/ Resolve \/ CreateStack \/ GetTemplateBody \/ UpdateStack

\* one run of an entry point, up to its lifecycle request
SpecCommand == InitC /\ [][NextCommand]_vars

InitS ==
  /\ impl \in Implementations
  /\ InitIdleWatch
  /\ InitIdleService
  /\ InitIdleCommand
  /\ InitIdleCfn
  /\ InitIdleRegistry
  /\ InitIdleCredentials

NextStack == GetEndpoint \/ GetOutputs \/ HasStack

\* the calls made on one CloudFormationService instance
SpecStack == InitS /\ [][NextStack]_vars

InitT ==
  /\ impl \in Implementations
  /\ InitIdleWatch
  /\ InitIdleService
  /\ InitIdleCommand
  /\ InitIdleCfn
  /\ InitIdleRegistry
  /\ InitIdleCredentials

NextStatus == GetDeploymentStatus \/ \E t \in Tasks : Receive(t) \/ Resume(t)

\* the two endpoint getters of one get_deployment_status call
SpecStatus == InitT /\ [][NextStatus]_vars

InitR ==
  /\ impl \in Implementations
  /\ InitIdleWatch
  /\ InitIdleService
  /\ InitIdleCommand
  /\ InitIdleCfn
  /\ InitIdleRegistry
  /\ InitIdleCredentials

NextRegistry == RegisterCloudProvider \/ CreateCloudProvider

\* the registry during one process
SpecRegistry == InitR /\ [][NextRegistry]_vars

-----------------------------------------------------------------------------
(* Properties of watchService *)

Rollback == "UPDATE_ROLLBACK_COMPLETE"

\* both status queries of the last iteration returned the status s
BothObserved(s) ==
  /\ observed.made /\ observed.ok /\ observed.val = s
  /\ recheck.made /\ recheck.ok /\ recheck.val = s

\* some status query of the watch failed
QueryFailed == (observed.made /\ ~observed.ok) \/ (recheck.made /\ ~recheck.ok)

\* the error message of the status query that failed
QueryFailure == IF recheck.made /\ ~recheck.ok THEN recheck.val ELSE observed.val

\* the status query made last
LastQuery == IF recheck.made THEN recheck ELSE observed

C2_FailedStatusEndsWatch ==
  (LastQuery.made /\ LastQuery.ok /\ LastQuery.val \in FailedStates \ CompletedStates) =>
    /\ pc # "isStackDeployCompleted"
    /\ pc = "done" => (result = "error" /\ errorMessage = FailureMessages[action])

\* C3: in a delete watch a failed status query, on whichever poll, ends the watch
\* at once with success: no error for the caller, no step left to take.
C3_DeleteToleratesQueryError ==
  (action = Delete /\ QueryFailed) =>
    /\ pc = "done"
    /\ result = "success"
    /\ errorMessage = ""
    /\ ~ENABLED NextWatch

C3_Witness ==
  /\ action = Delete
  /\ nQueries = 2
  /\ observed.made /\ ~observed.ok
  /\ pc = "done"

\* C4: in a deploy or update watch a failed status query ends the watch with an
\* error whose message is the message of the query's error.
C4_QueryErrorReachesCaller ==
  (action # Delete /\ QueryFailed) =>
    /\ pc = "done"
    /\ result = "error"
    /\ errorMessage = QueryFailure

\* C5: the spinner has been stopped exactly once when watchService has ended,
\* however it ended, and not at all while the loop runs.
C5_SpinnerStoppedOnce ==
  /\ pc = "done" => spinnerStops = 1
  /\ pc # "done" => spinnerStops = 0

C5_Witness ==
  /\ pc = "done"
  /\ result = "error"
  /\ QueryFailed
  /\ spinnerStops = 1

\* C6: a watch that ends with success on a Completed status has made as many
\* status queries as the position of the first Completed status among the
\* snapshots (three for CREATE_IN_PROGRESS, CREATE_IN_PROGRESS, CREATE_COMPLETE).
C6_PollsUpToFirstCompleted ==
  (pc = "done" /\ result = "success" /\ firstCompletedAt > 0) =>
    nQueries = firstCompletedAt

\* C7: a status outside the Completed and the Failed set never ends the watch on
\* the query that returned it.
C7_UnclassifiedNeverEndsWatch ==
  (LastQuery.made /\ LastQuery.ok /\ LastQuery.val \notin CompletedStates \cup FailedStates) =>
    pc # "done"

-----------------------------------------------------------------------------
(* Properties of deployService / updateService *)

\* the versions submitted in lifecycle requests
SubmittedVersions ==
  {Param(requests[i], "ClapDBVersion") : i \in 1..Len(requests)}

ExplicitToken(cfg) == ~Falsy(cfg.clapdbVersion) /\ cfg.clapdbVersion.v # Latest

Calls(fn) == {i \in 1..Len(storeCalls) : storeCalls[i].fn = fn}

\* C8: the version parameter of every create or update request is a resolved
\* version: present, not empty, not 'latest'.
C8_SubmittedVersionResolved ==
  \A p \in SubmittedVersions :
    /\ ~p.UsePreviousValue
    /\ p.ParameterValue # <<>>
    /\ p.ParameterValue # Latest

\* a has-artifact call of this service call found version v for the architecture
\* of the configuration
Verified(v) ==
  \E i \in Calls("hasArtifact") :
    /\ storeCalls[i].found
    /\ storeCalls[i].version = v
    /\ storeCalls[i].arch = config.arch
    /\ storeCalls[i].bucket = BucketOf(config)

\* C9, as stated: every submitted version, whatever the form of the token, was
\* confirmed during the call to have an artifact for the architecture.
C9_SubmittedVersionVerified ==
  \A p \in SubmittedVersions : Verified(p.ParameterValue)

\* C9, amended: a version submitted for an explicit token is that token and was
\* confirmed during the call by a has-artifact lookup for the configuration's
\* architecture; for an empty or 'latest' token no artifact lookup is made.
C9_ExplicitVersionVerified ==
  \A p \in SubmittedVersions :
    IF ExplicitToken(config)
      THEN p.ParameterValue = config.clapdbVersion.v /\ Verified(p.ParameterValue)
    ELSE Calls("hasArtifact") = {}

C9_Witness ==
  /\ svcOp = "updateService"
  /\ config.clapdbVersion = Some(V3)
  /\ config.arch = "arm64"
  /\ Len(requests) = 1

\* C10: version resolution makes exactly one store call: latest tag for an empty
\* or absent token, latest hash for 'latest', has artifact with the token and the
\* configuration's architecture otherwise; none before, none after.
C10_ExactStoreCalls ==
  IF svcPc = "resolve" THEN storeCalls = <<>>
  ELSE /\ Len(storeCalls) = 1
       /\ storeCalls[1].bucket = BucketOf(config)
       /\ IF Falsy(config.clapdbVersion) THEN storeCalls[1].fn = "getLatestTag"
          ELSE IF config.clapdbVersion.v = Latest THEN storeCalls[1].fn = "getLatestHash"
          ELSE /\ storeCalls[1].fn = "hasArtifact"
               /\ storeCalls[1].version = config.clapdbVersion.v
               /\ storeCalls[1].arch = config.arch

C10_Witness ==
  /\ svcPc = "done"
  /\ svcResult.result = "success"
  /\ config.clapdbVersion = Some(Abc)
  /\ Len(storeCalls) = 1
  /\ storeCalls[1].fn = "hasArtifact"

\* the store call of this service call, once made
StoreCall == storeCalls[1]

\* C11: for an explicit token whose artifact the store does not hold (NoSuchKey
\* for the token and the architecture), deployService fails with 'Invalid version'
\* and updateService with 'Artifact not found, check the version/commit', and no
\* create or update request has been issued.
C11_MissingArtifactFailsBeforeRequest ==
  (svcPc # "resolve" /\ ExplicitToken(config) /\ StoreCall.error = "NoSuchKey") =>
    /\ svcPc = "done"
    /\ svcResult.result = "error"
    /\ svcResult.message =
         IF svcOp = "deployService" THEN "Invalid version"
         ELSE "Artifact not found, check the version/commit"
    /\ requests = <<>>

C11_Witness ==
  /\ Len(storeCalls) = 1
  /\ svcOp = "updateService"
  /\ config.clapdbVersion = Some(V3)
  /\ StoreCall.fn = "hasArtifact"
  /\ StoreCall.error = "NoSuchKey"
  /\ svcResult.message = "Artifact not found, check the version/commit"

\* failures of access to the store, as opposed to an object that is not there
StoreAccessFailures == {"AccessDenied"}

\* C12: when the store call of version resolution fails with a store-access
\* failure, on whichever path, the service call has failed with the store failure
\* (not with an invalid-version or artifact-not-found outcome), after that one
\* call and with no lifecycle request issued.
C12_StoreFailurePropagates ==
  (svcPc # "resolve" /\ StoreCall.error \in StoreAccessFailures) =>
    /\ svcPc = "done"
    /\ svcResult.result = "error"
    /\ svcResult.message \notin
         {"Invalid version", "Artifact not found, check the version/commit"}
    /\ Len(storeCalls) = 1
    /\ requests = <<>>

\* the update requests issued
UpdateRequests == {i \in 1..Len(requests) : requests[i].command = "UpdateStack"}

\* C14: every update request carries the private-VPC parameter as 'use previous
\* value', never as a literal, whatever enablePrivateVpc is in the configuration.
C14_PrivateVpcKeptOnUpdate ==
  \A i \in UpdateRequests :
    /\ Param(requests[i], "EnablePrivateVPC").UsePreviousValue
    /\ Param(requests[i], "EnablePrivateVPC").ParameterValue \notin {"true", "false"}

C14_Witness ==
  /\ UpdateRequests # {}
  /\ config.enablePrivateVpc
  /\ Param(requests[1], "EnablePrivateVPC").UsePreviousValue

-----------------------------------------------------------------------------
(* Properties of the entry points *)

CreateRequests == {i \in 1..Len(requests) : requests[i].command = "CreateStack"}

\* the settings an update leaves unspecified: those without an option, and those
\* whose option was not given
Unspecified(opts) ==
  {"Arch", "ArtifactsBucket", "EnablePrivateVPC", "EnablePrivateEndpoint",
   "DispatcherMemorySize", "ReducerMemorySize", "WorkerMemorySize"}
    \cup (IF Falsy(opts.lambdaMemorySize) THEN {"LambdaMemorySize"} ELSE {})
    \cup (IF opts.logging.some THEN {} ELSE {"EnableLogging"})

\* C13: in the update request of a partial update every setting the caller did not
\* specify is submitted as 'use previous value' or with the value the stack holds,
\* so that the update leaves it as it was.
C13_PartialUpdateKeepsSettings ==
  command = "update" =>
    \A i \in UpdateRequests : \A k \in Unspecified(options) :
      \/ Param(requests[i], k).UsePreviousValue
      \/ Param(requests[i], k).ParameterValue = stackParameters[k]

\* C20: no create request carries the private-endpoint flag true with the
\* private-VPC flag false; the deploy command given that combination ends,
\* rejected, without a create request.
C20_PrivateEndpointRequiresVpc ==
  /\ \A i \in CreateRequests :
       ~ /\ Param(requests[i], "EnablePrivateEndpoint").ParameterValue = "true"
         /\ Param(requests[i], "EnablePrivateVPC").ParameterValue = "false"
  /\ (/\ command = "deploy"
      /\ svcPc # "command"
      /\ Truthy(options.privateEndpoint)
      /\ ~Truthy(options.privateVpc)) =>
       /\ svcPc = "done"
       /\ svcResult.result = "rejected"
       /\ requests = <<>>

C20_Witness ==
  /\ command = "deploy"
  /\ options.privateEndpoint = Flag(TRUE)
  /\ options.privateVpc = NoFlag
  /\ svcPc = "done"
  /\ svcResult = Rejected("private endpoint must be used with private-vpc=true")

-----------------------------------------------------------------------------
(* Properties of the CloudFormationService instance *)

\* C15: a getter queries the engine exactly when the outputs map is empty at the
\* call; with a non-empty map it makes no query, leaves the map as it is and
\* answers from it, whatever the engine would answer now. getOutputs always
\* queries.
C15_GettersQueryOnlyWhileEmpty ==
  [][nCalls' = nCalls + 1 =>
       /\ cfnCall'.fn \in DOMAIN Getters =>
            IF Len(outputs) = 0 THEN cfnCall'.queries = 1
            ELSE /\ cfnCall'.queries = 0
                 /\ ~cfnCall'.threw
                 /\ outputs' = outputs
                 /\ cfnCall'.returned = MapGet(outputs, Getters[cfnCall'.fn], "")
       /\ cfnCall'.fn = "getOutputs" => cfnCall'.queries = 1]_vars

C15_Witness ==
  /\ nCalls = 3
  /\ cfnCall.fn = "getDataApiUrl"
  /\ cfnCall.sizeBefore = 1
  /\ cfnCall.queries = 0
  /\ cfnCall.returned = "https://b"

\* C16: hasStack returns false without raising when the query fails with a
\* ValidationError, raises the query's error when it fails otherwise, and on a
\* successful query returns true exactly when a stack was returned.
C16_HasStackClassifiesErrors ==
  cfnCall.fn = "hasStack" =>
    /\ cfnCall.sent = "ValidationError" => (~cfnCall.threw /\ ~cfnCall.has)
    /\ cfnCall.sent \notin {"", "ValidationError"} =>
         (cfnCall.threw /\ cfnCall.error = cfnCall.sent)
    /\ cfnCall.sent = "" => (~cfnCall.threw /\ (cfnCall.has <=> cfnCall.nStacks >= 1))

C16_Witness ==
  /\ cfnCall.fn = "hasStack"
  /\ cfnCall.sent = "ValidationError"
  /\ ~cfnCall.threw
  /\ ~cfnCall.has

-----------------------------------------------------------------------------
(* Properties of the registry *)

IsUpper(c) == \E i \in 1..Len(UpperCase) : UpperCase[i] = c

SameLetter(c, d) ==
  c = d \/ \E i \in 1..Len(UpperCase) : {c, d} = {UpperCase[i], LowerCase[i]}

SameIgnoringCase(a, b) ==
  Len(a) = Len(b) /\ \A i \in 1..Len(a) : SameLetter(a[i], b[i])

\* the factory given by the last of the first n registrations whose name is name,
\* ignoring case; '' if there is none
LastRegistered(name, n) ==
  LET made == {i \in 1..n : SameIgnoringCase(registrations[i].name, name)}
  IN  IF made = {} THEN ""
      ELSE registrations[CHOOSE i \in made : \A j \in made : j <= i].factory

RegisteredKeys == getRegisteredProviders(providerFactories)

\* C17: every registered key is lower-case, no two keys are equal ignoring case,
\* and createCloudProvider(n, p) invokes with p the factory last registered under
\* a name equal to n ignoring case.
C17_KeysLowerCaseLookupIgnoresCase ==
  /\ \A i \in 1..Len(RegisteredKeys) :
       \A c \in 1..Len(RegisteredKeys[i]) : ~IsUpper(RegisteredKeys[i][c])
  /\ \A i, j \in 1..Len(RegisteredKeys) :
       i # j => ~SameIgnoringCase(RegisteredKeys[i], RegisteredKeys[j])
  /\ (created.called /\ LastRegistered(created.name, created.at) # "") =>
       /\ ~created.threw
       /\ created.invoked = LastRegistered(created.name, created.at)
       /\ created.given = created.profile

C17_Witness ==
  /\ Len(registrations) = 2
  /\ registrations[1] = [name |-> <<"a", "w", "s">>, factory |-> "awsFactory"]
  /\ registrations[2] = [name |-> <<"A", "w", "S">>, factory |-> "testFactory"]
  /\ created.at = 2
  /\ created.name = <<"A", "w", "S">>
  /\ created.invoked = "testFactory"
  /\ created.given = "prod"

\* the names that are registered, as a set
KeySet(m) == {m[i].key : i \in 1..Len(m)}

\* C18: a registration under a name that is registered (ignoring case) replaces
\* the factory of that name: the registered names stay the same, the name now
\* creates with the new factory, every other name keeps its factory.
C18_ReregistrationReplaces ==
  [][Len(registrations') = Len(registrations) + 1 =>
       LET r == registrations'[Len(registrations')]
       IN  (\E k \in KeySet(providerFactories) : SameIgnoringCase(k, r.name)) =>
             /\ KeySet(providerFactories') = KeySet(providerFactories)
             /\ \A p \in Profiles :
                  LET c == createCloudProvider(providerFactories', r.name, p)
                  IN  ~c.threw /\ c.invoked = r.factory /\ c.given = p
             /\ \A k \in KeySet(providerFactories) :
                  ~SameIgnoringCase(k, r.name) =>
                    MapGet(providerFactories', k, "") = MapGet(providerFactories, k, "")]_vars

C18_Witness ==
  /\ Len(registrations) = 3
  /\ registrations[1] = [name |-> <<"a", "w", "s">>, factory |-> "awsFactory"]
  /\ registrations[2] = [name |-> <<"g", "c", "p">>, factory |-> "awsFactory"]
  /\ registrations[3] = [name |-> <<"A", "w", "S">>, factory |-> "testFactory"]
  /\ Len(providerFactories) = 2
  /\ MapGet(providerFactories, <<"a", "w", "s">>, "") = "testFactory"

IsInfix(a, b) ==
  \E i \in 0..(Len(b) - Len(a)) : SubSeq(b, i + 1, i + Len(a)) = a

Commas(s) == Cardinality({i \in 1..Len(s) : s[i] = ","})

\* the registry after the first n registrations
RECURSIVE RegistryAt(_)
RegistryAt(n) ==
  IF n = 0 THEN <<>>
  ELSE registerCloudProvider(RegistryAt(n - 1), registrations[n].name,
                             registrations[n].factory)

\* C19: createCloudProvider with a name that is not registered fails with the
\* unknown-provider error, whose message lists every registered name, separated by
\* commas, or says 'none' when the registry is empty; no factory is invoked and
\* the registry is left as it was.
C19_UnknownProviderListsNames ==
  /\ [](LET keys == KeySet(RegistryAt(created.at))
        IN  (created.called /\ ~\E k \in keys : SameIgnoringCase(k, created.name)) =>
              /\ created.threw
              /\ created.invoked = ""
              /\ created.message.name = created.name
              /\ keys = {} => created.message.available = NoneText
              /\ keys # {} =>
                   /\ \A k \in keys : IsInfix(k, created.message.available)
                   /\ Cardinality(keys) > 1 =>
                        Commas(created.message.available) = Cardinality(keys) - 1)
  /\ [][registrations' = registrations => providerFactories' = providerFactories]_vars

C19_Witness ==
  /\ Len(registrations) = 2
  /\ created.at = 2
  /\ created.threw
  /\ created.name = <<"a", "z", "u", "r", "e">>
  /\ created.message.available = <<"a", "w", "s", ",", " ", "g", "c", "p">>

-----------------------------------------------------------------------------
(* Properties of the lifecycle requests *)

\* C21: an update request made for a configuration without a template body
\* follows one successful fetch of the applied template and carries exactly the
\* fetched template; with a template body supplied it carries that body and no
\* fetch is made; a failed fetch ends the call with no update request.
C21_TemplateFetchedWhenMissing ==
  /\ \A i \in UpdateRequests :
       IF FalsyText(config.templateBody)
         THEN /\ template.fetches = 1
              /\ template.fetched.ok
              /\ requests[i].TemplateBody = Some(template.fetched.val)
       ELSE /\ template.fetches = 0
            /\ requests[i].TemplateBody = config.templateBody
  /\ svcPc = "getTemplateBody" => requests = <<>>
  /\ (template.fetches > 0 /\ ~template.fetched.ok) =>
       /\ requests = <<>>
       /\ svcPc = "done"
       /\ svcResult.result = "error"

C21_Witness ==
  /\ svcOp = "updateService"
  /\ config.templateBody = None
  /\ template.fetches = 1
  /\ UpdateRequests = {1}
  /\ requests[1].TemplateBody = Some("Resources: applied")

\* the parameter keys a command carries
Keys(cmd) == {cmd.Parameters[j].ParameterKey : j \in 1..Len(cmd.Parameters)}

\* the configuration field behind each parameter of an update request
FieldOf ==
  [StackName |-> "stackName", Arch |-> "arch", ArtifactsBucket |-> "artifactsBucket",
   ClapDBVersion |-> "clapdbVersion", EnablePrivateVPC |-> "enablePrivateVpc",
   EnablePrivateEndpoint |-> "enablePrivateEndpoint",
   LambdaMemorySize |-> "lambdaMemorySize",
   DispatcherMemorySize |-> "dispatcherMemorySize",
   ReducerMemorySize |-> "reducerMemorySize", WorkerMemorySize |-> "workerMemorySize",
   EnableLogging |-> "enableLogging"]

\* C24: every create request carries every parameter that an update request
\* carries, the dispatcher, reducer and worker memory sizes among them, with the
\* value of the configuration.
C24_CreateSubmitsEveryUpdateParameter ==
  \A i \in CreateRequests :
    /\ Keys(requests[i]) = DOMAIN FieldOf
    /\ \A k \in {"DispatcherMemorySize", "ReducerMemorySize", "WorkerMemorySize"} :
         \E j \in 1..Len(requests[i].Parameters) :
           /\ requests[i].Parameters[j].ParameterKey = k
           /\ requests[i].Parameters[j].ParameterValue = ToString(config[FieldOf[k]])

\* the architecture a stack runs after an update request
ArchAfter(cmd) ==
  IF Param(cmd, "Arch").UsePreviousValue THEN stackParameters.Arch
  ELSE Param(cmd, "Arch").ParameterValue

\* C30: an update request made for an explicit version submits a version whose
\* artifact was looked up for the architecture the stack runs after the update.
C30_VerifiedForArchOfStack ==
  (command = "update" /\ ExplicitToken(config)) =>
    \A i \in UpdateRequests :
      \E c \in Calls("hasArtifact") :
        /\ storeCalls[c].found
        /\ storeCalls[c].version = Param(requests[i], "ClapDBVersion").ParameterValue
        /\ storeCalls[c].arch = ArchAfter(requests[i])


-----------------------------------------------------------------------------
(* Properties of the progress display and of the outcome of watchService *)

\* the resources of the response are listed once each
ListedOnce(rs) ==
  \A i, j \in 1..Len(rs) : rs[i].LogicalResourceId = rs[j].LogicalResourceId => i = j

\* positions of the response whose status is in the set
Positions(rs, statuses) == {i \in 1..Len(rs) : rs[i].ResourceStatus \in statuses}

Least(S) == CHOOSE i \in S : \A j \in S : i <= j

\* a progress step shows the first resource with a status of the set, or nothing
ShowsFirstOf(statuses) ==
  LET rs == resourceFetch'.StackResources
      at == Positions(rs, statuses)
  IN  IF resourceFetch'.throws \/ at = {}
        THEN spinnerText' = spinnerText
      ELSE spinnerText' = [resource |-> rs[Least(at)].LogicalResourceId,
                           status |-> rs[Least(at)].ResourceStatus]

ProgressStep ==
  /\ pc = "showFirstProcessedResource"
  /\ resourceFetch'.made
  /\ ListedOnce(resourceFetch'.StackResources)

\* C22 (as stated): on a non-terminal poll the resource shown is the first one
\* returned whose status is CREATE_COMPLETE or UPDATE_COMPLETE for create and
\* update, DELETE_COMPLETE for delete; with no match the text is unchanged.
C22_FirstCompleteResourceShown ==
  [][ProgressStep =>
       ShowsFirstOf(IF action = Delete THEN {"DELETE_COMPLETE"}
                    ELSE {"CREATE_COMPLETE", "UPDATE_COMPLETE"})]_vars

\* C22 (amended): the resource shown is the first one returned whose status is
\* CREATE_COMPLETE or UPDATE_COMPLETE for create, UPDATE_COMPLETE for update,
\* DELETE_COMPLETE for delete; with no match, or a failed fetch, the text is
\* unchanged.
C22_FirstProcessedResourceShown ==
  [][ProgressStep =>
       ShowsFirstOf(CASE action = Deploy -> {"CREATE_COMPLETE", "UPDATE_COMPLETE"}
                      [] action = Update -> {"UPDATE_COMPLETE"}
                      [] action = Delete -> {"DELETE_COMPLETE"})]_vars

C22_Witness ==
  /\ action = Update
  /\ resourceFetch.made /\ ~resourceFetch.throws
  /\ Len(resourceFetch.StackResources) = 2
  /\ resourceFetch.StackResources[1].ResourceStatus = "CREATE_COMPLETE"
  /\ resourceFetch.StackResources[2].ResourceStatus = "UPDATE_COMPLETE"
  /\ spinnerText = [resource |-> resourceFetch.StackResources[2].LogicalResourceId,
                    status |-> "UPDATE_COMPLETE"]

\* C23: after a failed per-resource fetch on a non-terminal poll of a create or
\* delete watch, the watch has no outcome, the spinner runs and the next step is
\* the next status poll.
C23_FetchFailureContinuesWatch ==
  (resourceFetch.made /\ resourceFetch.throws /\ action \in {Deploy, Delete}) =>
    /\ pc = "isStackDeployCompleted"
    /\ result = "none"
    /\ errorMessage = ""
    /\ spinnerStops = 0

C23_Witness ==
  /\ action = Delete
  /\ resourceFetch.made /\ resourceFetch.throws
  /\ pc = "isStackDeployCompleted"
  /\ nQueries = 2

\* statuses that end the requested action well
ProducedBy(a) ==
  CASE a = Deploy -> {"CREATE_COMPLETE"}
    [] a = Update -> {"UPDATE_COMPLETE"}
    [] a = Delete -> {"DELETE_COMPLETE"}

\* C25: a watch returns success only on a terminal status the requested action
\* produced; for delete, also when the stack has disappeared.
C25_SuccessOnStatusOfTheAction ==
  (pc = "done" /\ result = "success") =>
    \/ action = Delete /\ QueryFailed
    \/ observed.made /\ observed.ok /\ observed.val \in ProducedBy(action)

\* C26: the outcome of a watch that saw a Completed status is the outcome that
\* status gives: failure when it is a Failed status, success otherwise.
C26_OutcomeOfOneSnapshot ==
  (pc = "done" /\ observed.made /\ observed.ok /\ observed.val \in CompletedStates) =>
    result = IF observed.val \in FailedStates THEN "error" ELSE "success"


-----------------------------------------------------------------------------
(* Properties of the outputs of several stacks *)

\* C27: an output returned by a getter called for a stack is an output of that
\* stack, whatever calls were made on the instance before.
C27_GetterAnswersForItsStack ==
  (cfnCall.fn \in DOMAIN Getters /\ ~cfnCall.threw /\ cfnCall.returned # "") =>
    outputsOf = cfnCall.name

\* the value that an answer holds for a key
Held(resp, key) ==
  LET os == IF resp.Stacks = <<>> THEN <<>> ELSE resp.Stacks[1]
      at == {i \in 1..Len(os) : os[i].OutputKey = key /\ os[i].OutputValue # ""}
  IN  IF at = {} THEN ""
      ELSE os[CHOOSE i \in at : \A j \in at : j <= i].OutputValue

KeyOf == [getDataApiUrl |-> "ClapDataApiURL", getLicenseApiUrl |-> "ClapLicenseApiURL"]

\* C28: each of the two getters running together returns the value that one of
\* the answers received holds for its key.
C28_ConcurrentGettersReadWholeAnswer ==
  \A t \in Tasks :
    (tasks[t].pc = "done" /\ ~tasks[t].threw) =>
      \E u \in Tasks :
        /\ tasks[u].received /\ ~tasks[u].answer.throws
        /\ tasks[t].returned = Held(tasks[u].answer, KeyOf[t])

C28_Witness ==
  /\ \A t \in Tasks : tasks[t].pc = "done" /\ ~tasks[t].threw
  /\ Held(tasks["getDataApiUrl"].answer, "ClapLicenseApiURL") = "https://a"
  /\ Held(tasks["getLicenseApiUrl"].answer, "ClapLicenseApiURL") = "https://b"
  /\ Held(tasks["getLicenseApiUrl"].answer, "ClapDataApiURL") = "https://a"
  /\ tasks["getDataApiUrl"].returned = "https://a"
  /\ tasks["getLicenseApiUrl"].returned = "https://a"


-----------------------------------------------------------------------------
(* Properties of the credential file *)

\* C29: a handler that saves or deletes the credential of one stack leaves the
\* stored profile of every other stack as it was.
C29_OtherProfilesUnchanged ==
  [][\A n \in StackNames :
       n # cred'.stackName => file'.profiles[n] = file.profiles[n]]_vars

====
